---- MODULE Spec2Model ----
(***************************************************************************)
(* Model of the callbot relay: server.js (class VoiceStream, one per       *)
(* inbound Twilio media-stream connection) and amivoice.js (class          *)
(* AmiVoice, one per "start" event, owning one websocket client to the     *)
(* AmiVoice speech-recognition provider).                                  *)
(*                                                                         *)
(* The single Node.js event loop runs one handler at a time: every action  *)
(* below is one handler run to completion.  An exception that escapes a    *)
(* handler is uncaught (no try/catch anywhere on the path) and ends the    *)
(* process; it is recorded in fault and no handler runs afterwards.        *)
(***************************************************************************)
EXTENDS Integers, Sequences, FiniteSets, TLC

\* ---------------------------------------------------------------- bounds
MaxInbound  == 3   \* frames received on the inbound (Twilio) connection
MaxSessions == 2   \* "start" events, i.e. AmiVoice objects constructed
MaxFrames   == 2   \* frames received on the provider connections, all together
MaxEvents   == 5   \* frames received on all connections, inbound and provider, together

\* ------------------------------------------------------------- constants
AudioMarker == 112  \* 0x70, ASCII "p"
PauseLength == 40   \* seconds of pause after the spoken reply

CallSids == {"CA123", "CA456"}
Texts    == {"hello", "yoyaku"}
Replies  == {"reply"}

\* base64 symbols are written as their 6-bit values; Pad is "="
Pad == 64
\* "/w==" (one byte, two padding characters) and "fv//fv8=" (five bytes, one)
Payloads == { <<63, 48, Pad, Pad>>, <<31, 47, 63, 63, 31, 47, 60, Pad>> }

StartCommand == "s mulaw -a-general authorization=KEY"
EndCommand   == "e"

\* ------------------------------------------------------------------ state
VARIABLES
    messageCount,        \* VoiceStream.messageCount
    amiVoiceConnection,  \* VoiceStream.amiVoiceConnection: 0 is null, else the AmiVoice object
    callSid,             \* VoiceStream.callSid
    twilio,              \* inbound transport: "open" | "closed"
    received,            \* frames delivered so far on the inbound connection
    fault,               \* "none", or the uncaught exception that ended the process
    ami,                 \* AmiVoice objects, in construction order
    client,              \* per AmiVoice: its websocket client / transport state
    wire,                \* per AmiVoice: frames written to the provider connection
    frames,              \* frames delivered so far on the provider connections
    emitted,             \* per AmiVoice: "transcription" events emitted, in order
    accepted,            \* per AmiVoice: texts of the 'A' frames received, in order
    sessionStarted,      \* per AmiVoice: 's' received and no 'e', transport close or close() since
    connects,            \* per AmiVoice: successful low-level connects
    dialed,              \* per AmiVoice: client.connect() calls issued
    inflight,            \* receivedTranscription calls awaiting the completion
    callUpdates,         \* call-update requests issued, in order
    starts,              \* "start" events received on the inbound connection
    closes,              \* per call of VoiceStream.close(): the number of frames it wrote
    peer,                \* a second Call Session of the same process
    log                  \* the events of the end-to-end scenario, in order

vars == << messageCount, amiVoiceConnection, callSid, twilio, received, fault,
           ami, client, wire, frames, emitted, accepted, sessionStarted,
           connects, dialed, inflight, callUpdates, starts, closes, peer, log >>

Sessions == 1..Len(ami)

\* ------------------------------------------------------------ base64, frames
RECURSIVE TakeSymbols(_)
\* the symbols of a payload up to the first padding character
TakeSymbols(p) ==
    IF p = <<>> \/ Head(p) = Pad THEN <<>> ELSE <<Head(p)>> \o TakeSymbols(Tail(p))

RECURSIVE DecodeGroups(_)
\* 4 symbols -> 3 bytes; a trailing 3 -> 2 bytes; a trailing 2 -> 1 byte; a trailing 1 -> none
DecodeGroups(s) ==
    IF Len(s) < 2 THEN <<>>
    ELSE IF Len(s) = 2 THEN << s[1] * 4 + s[2] \div 16 >>
    ELSE IF Len(s) = 3 THEN << s[1] * 4 + s[2] \div 16,
                               (s[2] % 16) * 16 + s[3] \div 4 >>
    ELSE << s[1] * 4 + s[2] \div 16,
            (s[2] % 16) * 16 + s[3] \div 4,
            (s[3] % 4) * 64 + s[4] >> \o DecodeGroups(SubSeq(s, 5, Len(s)))

\* Buffer.from(payload, "base64")
Base64Decode(payload) == DecodeGroups(TakeSymbols(payload))

\* the copy loop writing at outData[i] instead of outData[1 + i]: the marker is
\* overwritten and the last byte stays zero
OutData_unshifted(buff) ==
    [i \in 1..(Len(buff) + 1) |-> IF i <= Len(buff) THEN buff[i] ELSE 0]

\* outData: a Uint8Array of buff.length + 1 bytes, the marker then the audio
OutData(buff) ==
    [i \in 1..(Len(buff) + 1) |-> IF i = 1 THEN AudioMarker ELSE buff[i - 1]]

Utf8Frame(text)    == [type |-> "utf8",   text |-> text, bytes |-> <<>>]
BinaryFrame(bytes) == [type |-> "binary", text |-> "",   bytes |-> bytes]

\* --------------------------------------------------------------- AmiVoice
\* Each method takes the object and returns the object after the call, the
\* frames it wrote to this.connection, the number of client.connect() calls
\* it issued, and the exception it threw, if any.
Result(self, out, err) == [self |-> self, out |-> out, dials |-> 0, err |-> err]

\* constructor: isReady = false; isStarted and connection are left undefined
\* and nobody listens to "transcription" yet
NewAmiVoice ==
    [isReady |-> FALSE, isStarted |-> FALSE, connection |-> FALSE, listeners |-> 0]

\* this.connection.send(frame)
ConnectionSend(self, frame) ==
    IF self.connection THEN Result(self, <<frame>>, "none")
    ELSE Result(self, <<>>, "TypeError: send of undefined")

\* connect(): a new client is created and dialled only while not ready
connect(self) ==
    IF ~self.isReady
    THEN [Result(self, <<>>, "none") EXCEPT !.dials = 1]
    ELSE Result(self, <<>>, "none")

\* start() with its guard reversed: the command goes out only when already started
start_whenStarted(self) ==
    IF ~self.isReady THEN connect(self)
    ELSE IF self.isReady /\ self.isStarted
         THEN ConnectionSend(self, Utf8Frame(StartCommand))
         ELSE Result(self, <<>>, "none")

start(self) ==
    IF ~self.isReady THEN connect(self)
    ELSE IF self.isReady /\ ~self.isStarted
         THEN ConnectionSend(self, Utf8Frame(StartCommand))
         ELSE Result(self, <<>>, "none")

\* send() that writes the frame twice
send_twice(self, payload) ==
    IF self.isStarted
    THEN LET r == ConnectionSend(self, BinaryFrame(OutData(Base64Decode(payload))))
         IN  Result(r.self, r.out \o r.out, r.err)
    ELSE Result(self, <<>>, "none")

send(self, payload) ==
    IF self.isStarted
    THEN ConnectionSend(self, BinaryFrame(OutData(Base64Decode(payload))))
    ELSE Result(self, <<>>, "none")

\* close() that clears the flag without sending the end command
AmiVoice_close_silent(self) ==
    IF self.isStarted /\ self.isReady
    THEN Result([self EXCEPT !.isStarted = FALSE], <<>>, "none")
    ELSE Result(self, <<>>, "none")

\* close() that sends the end command but leaves isStarted set
AmiVoice_close_sticky(self) ==
    IF self.isStarted /\ self.isReady
    THEN ConnectionSend(self, Utf8Frame(EndCommand))
    ELSE Result(self, <<>>, "none")

AmiVoice_close(self) ==
    IF self.isStarted /\ self.isReady
    THEN LET r == ConnectionSend(self, Utf8Frame(EndCommand))
         IN  IF r.err = "none"
             THEN Result([self EXCEPT !.isStarted = FALSE], r.out, "none")
             ELSE r
    ELSE Result(self, <<>>, "none")

\* ------------------------------------------------ provider frames (inbound)
\* A provider text frame is its discriminator character, then (for 'A') a
\* separator and the result document.  utf8Data is the sequence of these parts.
Codes == {"s", "e", "A", "S", "E", "C", "U", "G"}

\* the result document that carries text t, as it appears on the wire
Doc(t) == <<"json", t>>

ProviderFrames ==
    { [type |-> "utf8", utf8Data |-> <<c>>] : c \in Codes \ {"A"} }
    \cup { [type |-> "utf8", utf8Data |-> <<"A", " ", Doc(t)>>] : t \in Texts }
    \cup { [type |-> "binary", utf8Data |-> <<>>] }

\* message.utf8Data.charAt(0)
CharAt0(utf8Data) == IF utf8Data = <<>> THEN "" ELSE utf8Data[1]

\* substring(1): the separator is left in front of the document
Substring1(utf8Data) == SubSeq(utf8Data, 2, Len(utf8Data))

\* message.utf8Data.substring(2)
Substring2(utf8Data) == SubSeq(utf8Data, 3, Len(utf8Data))

\* JSON.parse: the rest of the frame must be exactly one document
JSONparse(rest) ==
    IF Len(rest) = 1 /\ Len(rest[1]) = 2 /\ rest[1][1] = "json"
    THEN [ok |-> TRUE,  data |-> [text |-> rest[1][2]]]
    ELSE [ok |-> FALSE, data |-> [text |-> ""]]

\* connection.on("message"): the object after the frame, the "transcription"
\* events emitted, and the exception thrown, if any
OnMessage(self, message) ==
    IF message.type = "utf8"
    THEN LET code == CharAt0(message.utf8Data)
         IN  CASE code = "s" ->
                    [self |-> [self EXCEPT !.isStarted = TRUE],
                     events |-> <<>>, err |-> "none"]
               [] code = "A" ->
                    LET parsed == JSONparse(Substring2(message.utf8Data))
                    IN  IF parsed.ok
                        THEN [self |-> self, events |-> << [body |-> parsed.data] >>,
                              err |-> "none"]
                        ELSE [self |-> self, events |-> <<>>, err |-> "SyntaxError"]
               [] code = "e" ->
                    [self |-> [self EXCEPT !.isStarted = FALSE, !.isReady = FALSE],
                     events |-> <<>>, err |-> "none"]
               [] OTHER ->
                    [self |-> self, events |-> <<>>, err |-> "none"]
    ELSE [self |-> self, events |-> <<>>, err |-> "none"]

\* ------------------------------------------------------------ VoiceStream
\* inbound frames: the JSON envelope of a text frame, or a binary frame
Messages ==
    { [type |-> "utf8", event |-> e, callSid |-> "", payload |-> <<>>] :
          e \in {"connected", "closed", "mark"} }
    \cup { [type |-> "utf8", event |-> "start", callSid |-> c, payload |-> <<>>] :
          c \in CallSids }
    \cup { [type |-> "utf8", event |-> "media", callSid |-> "", payload |-> p] :
          p \in Payloads }
    \cup { [type |-> "binary", event |-> "", callSid |-> "", payload |-> <<>>] }

\* receivedTranscription given a call identifier that was never stored
ReceivedTranscription_unstored(data, sid) == [text |-> data.body.text, callSid |-> ""]

\* receivedTranscription up to its first await: the completion request is issued
ReceivedTranscription(data, sid) == [text |-> data.body.text, callSid |-> sid]

\* close(): this.amiVoiceConnection.close()
VoiceStream_close ==
    IF amiVoiceConnection = 0
    THEN Result(NewAmiVoice, <<>>, "TypeError: close of null")
    ELSE AmiVoice_close(ami[amiVoiceConnection])

\* this.amiVoiceConnection.send(data.media.payload)
VoiceStream_media(payload) ==
    IF amiVoiceConnection = 0
    THEN Result(NewAmiVoice, <<>>, "TypeError: send of null")
    ELSE send(ami[amiVoiceConnection], payload)

\* the effect of a call r made on the AmiVoice object i (0: there is none)
Commit(i, r) ==
    /\ fault' = r.err
    /\ IF i = 0
       THEN UNCHANGED << ami, wire >>
       ELSE /\ ami'  = [ami  EXCEPT ![i] = r.self]
            /\ wire' = [wire EXCEPT ![i] = @ \o r.out]

\* ------------------------------------------- a second VoiceStream object
\* The server constructs one VoiceStream per accepted connection.  The second
\* one (twilio is "none" until it is accepted) is held in one record: the fields of the object, its AmiVoice objects
\* (each with its client and what was written to its connection), its pending
\* completions and call updates, and the exception its handlers threw.
NewVoiceStream ==
    [messageCount |-> 0, amiVoiceConnection |-> 0, callSid |-> "",
     twilio |-> "open", received |-> 0, frames |-> 0, sessions |-> <<>>,
     inflight |-> <<>>, callUpdates |-> <<>>, thrown |-> "none"]

\* the provider assigns every call its own identifier
PeerSid == "CA789"

\* the frames of the second call: one of each kind, with its own identifier
PeerMessages ==
    { [m EXCEPT !.callSid = IF m.event = "start" THEN PeerSid ELSE ""] :
          m \in { x \in Messages : x.event = "media" => x.payload = <<63, 48, Pad, Pad>> } }

PeerFrames ==
    { f \in ProviderFrames :
          f.type = "utf8" => \/ f.utf8Data \in { <<"s">>, <<"e">>, <<"G">> }
                             \/ f.utf8Data = <<"A", " ", Doc("hello")>> }

\* the effect on vs of a call r made on its AmiVoice object i
VS_commit(vs, i, r) ==
    [vs EXCEPT !.sessions[i].obj = r.self,
               !.sessions[i].wire = @ \o r.out,
               !.thrown = r.err]

\* close() of vs
VS_close(vs) ==
    IF vs.amiVoiceConnection = 0
    THEN [vs EXCEPT !.thrown = "TypeError: close of null"]
    ELSE VS_commit(vs, vs.amiVoiceConnection,
                   AmiVoice_close(vs.sessions[vs.amiVoiceConnection].obj))

\* what follows the switch: this.messageCount++, unless the case threw
VS_counted(vs) ==
    IF vs.thrown = "none" THEN [vs EXCEPT !.messageCount = @ + 1] ELSE vs

\* processMessage(message) of vs
VS_processMessage(vs, message) ==
    LET got == [vs EXCEPT !.received = @ + 1]
    IN  IF message.type = "utf8"
        THEN CASE message.event = "start" ->
                    LET r == connect(NewAmiVoice)
                    IN  VS_counted(
                          [got EXCEPT !.callSid = message.callSid,
                                      !.sessions = Append(@,
                                          [obj |-> [r.self EXCEPT !.listeners = @ + 1],
                                           client |-> IF r.dials > 0 THEN "connecting"
                                                      ELSE "none",
                                           wire |-> r.out]),
                                      !.amiVoiceConnection = Len(vs.sessions) + 1])
               [] message.event = "media" ->
                    IF vs.amiVoiceConnection = 0
                    THEN [got EXCEPT !.thrown = "TypeError: send of null"]
                    ELSE VS_counted(VS_commit(got, vs.amiVoiceConnection,
                             send(vs.sessions[vs.amiVoiceConnection].obj,
                                  message.payload)))
               [] message.event = "closed" -> VS_counted(VS_close(got))
               [] OTHER -> VS_counted(got)
        ELSE got

Init ==
    /\ peer = [NewVoiceStream EXCEPT !.twilio = "none"]
    /\ messageCount = 0
    /\ amiVoiceConnection = 0
    /\ callSid = ""
    /\ twilio = "open"
    /\ received = 0
    /\ fault = "none"
    /\ ami = <<>>
    /\ client = <<>>
    /\ wire = <<>>
    /\ frames = 0
    /\ emitted = <<>>
    /\ accepted = <<>>
    /\ sessionStarted = <<>>
    /\ connects = <<>>
    /\ dialed = <<>>
    /\ inflight = <<>>
    /\ callUpdates = <<>>
    /\ starts = 0
    /\ closes = <<>>
    /\ log = <<>>

\* case "start": store the callSid, construct an AmiVoice (whose constructor
\* dials the provider) and subscribe to its "transcription" event
CaseStart(message) ==
    LET r == connect(NewAmiVoice)
    IN  /\ Len(ami) < MaxSessions
        /\ callSid' = message.callSid
        /\ ami' = Append(ami, [r.self EXCEPT !.listeners = @ + 1])
        /\ amiVoiceConnection' = Len(ami) + 1
        /\ client' = Append(client, IF r.dials > 0 THEN "connecting" ELSE "none")
        /\ dialed' = Append(dialed, r.dials)
        /\ wire' = Append(wire, r.out)
        /\ UNCHANGED frames
        /\ emitted' = Append(emitted, <<>>)
        /\ accepted' = Append(accepted, <<>>)
        /\ sessionStarted' = Append(sessionStarted, FALSE)
        /\ connects' = Append(connects, 0)
        /\ starts' = starts + 1
            /\ fault' = r.err
        /\ messageCount' = messageCount + 1

\* case "media" that constructs the AmiVoice on demand when there is none
CaseMedia_lazy(message) ==
    IF amiVoiceConnection = 0
    THEN LET r == connect(NewAmiVoice)
         IN  /\ Len(ami) < MaxSessions
             /\ ami' = Append(ami, r.self)
             /\ amiVoiceConnection' = Len(ami) + 1
             /\ client' = Append(client, "connecting")
             /\ dialed' = Append(dialed, r.dials)
             /\ wire' = Append(wire, r.out)
             /\ emitted' = Append(emitted, <<>>)
             /\ accepted' = Append(accepted, <<>>)
             /\ sessionStarted' = Append(sessionStarted, FALSE)
             /\ connects' = Append(connects, 0)
             /\ messageCount' = messageCount + 1
             /\ UNCHANGED << callSid, fault, frames, starts >>
    ELSE LET r == VoiceStream_media(message.payload)
         IN  /\ Commit(amiVoiceConnection, r)
             /\ messageCount' = messageCount + 1
             /\ UNCHANGED << amiVoiceConnection, callSid, client, frames, emitted,
                             accepted, sessionStarted, connects, dialed, starts >>

\* case "media"
CaseMedia(message) ==
    LET r == VoiceStream_media(message.payload)
    IN  /\ Commit(amiVoiceConnection, r)
        /\ messageCount' = IF r.err = "none" THEN messageCount + 1 ELSE messageCount
        /\ UNCHANGED << amiVoiceConnection, callSid, client, frames, emitted,
                        accepted, sessionStarted, connects, dialed, starts >>

\* case "closed"
CaseClosed ==
    LET r == VoiceStream_close
    IN  /\ Commit(amiVoiceConnection, r)
        /\ messageCount' = IF r.err = "none" THEN messageCount + 1 ELSE messageCount
        /\ sessionStarted' = IF amiVoiceConnection = 0 THEN sessionStarted
                             ELSE [sessionStarted EXCEPT ![amiVoiceConnection] = FALSE]
        /\ UNCHANGED << amiVoiceConnection, callSid, client, frames, emitted,
                        accepted, connects, dialed, starts >>

\* connection.on("message") of the inbound connection
\* processMessage with the counter incremented for binary frames too
processMessage_countAll(message) ==
    /\ fault = "none"
    /\ twilio = "open"
    /\ received' = received + 1
    /\ UNCHANGED << twilio, inflight, callUpdates >>
    /\ IF message.type = "utf8"
       THEN CASE message.event = "start"  -> CaseStart(message)
              [] message.event = "media"  -> CaseMedia(message)
              [] message.event = "closed" -> CaseClosed
              [] OTHER ->
                   /\ messageCount' = messageCount + 1
                   /\ UNCHANGED << amiVoiceConnection, callSid, fault, ami, client,
                                   wire, frames, emitted, accepted, sessionStarted,
                                   connects, dialed, starts >>
       ELSE /\ messageCount' = messageCount + 1
            /\ UNCHANGED << amiVoiceConnection, callSid, fault, ami,
                            client, wire, frames, emitted, accepted, sessionStarted,
                            connects, dialed, starts >>

processMessage(message) ==
    /\ fault = "none"
    /\ twilio = "open"
    /\ received' = received + 1
    /\ UNCHANGED << twilio, inflight, callUpdates >>
    /\ IF message.type = "utf8"
       THEN CASE message.event = "start"  -> CaseStart(message)
              [] message.event = "media"  -> CaseMedia(message)
              [] message.event = "closed" -> CaseClosed
              [] OTHER ->
                   /\ messageCount' = messageCount + 1
                   /\ UNCHANGED << amiVoiceConnection, callSid, fault, ami, client,
                                   wire, frames, emitted, accepted, sessionStarted,
                                   connects, dialed, starts >>
       ELSE UNCHANGED << messageCount, amiVoiceConnection, callSid, fault, ami,
                         client, wire, frames, emitted, accepted, sessionStarted,
                         connects, dialed, starts >>

\* connection.on("close") of the inbound connection
TwilioClose ==
    LET r == VoiceStream_close
    IN  /\ fault = "none"
        /\ twilio = "open"
        /\ twilio' = "closed"
        /\ Commit(amiVoiceConnection, r)
        /\ sessionStarted' = IF amiVoiceConnection = 0 THEN sessionStarted
                             ELSE [sessionStarted EXCEPT ![amiVoiceConnection] = FALSE]
        /\ UNCHANGED << messageCount, amiVoiceConnection, callSid, received, client,
                        frames, emitted, accepted, connects, dialed, inflight,
                        callUpdates, starts >>

\* client.on("connect"): keep the connection, mark ready, send the start command
ClientConnect(i) ==
    LET ready == [ami[i] EXCEPT !.connection = TRUE, !.isReady = TRUE]
        r     == start(ready)
    IN  /\ fault = "none"
        /\ client[i] = "connecting"
        /\ client' = [client EXCEPT ![i] = "open"]
        /\ connects' = [connects EXCEPT ![i] = @ + 1]
        /\ dialed' = [dialed EXCEPT ![i] = @ + r.dials]
        /\ Commit(i, r)
        /\ UNCHANGED << messageCount, amiVoiceConnection, callSid, twilio, received,
                        frames, emitted, accepted, sessionStarted, inflight,
                        callUpdates, starts >>

\* client.on("connectFailed")
ClientConnectFailed(i) ==
    /\ fault = "none"
    /\ client[i] = "connecting"
    /\ client' = [client EXCEPT ![i] = "failed"]
    /\ ami' = [ami EXCEPT ![i].isReady = FALSE]
    /\ UNCHANGED << messageCount, amiVoiceConnection, callSid, twilio, received,
                    fault, wire, frames, emitted, accepted, sessionStarted,
                    connects, dialed, inflight, callUpdates, starts >>

\* connection.on("message") of a provider connection; every "transcription"
\* event runs the listener VoiceStream registered, with this.callSid as it is now
ProviderMessage(i, message) ==
    LET r == OnMessage(ami[i], message)
        code == CharAt0(message.utf8Data)
    IN  /\ fault = "none"
        /\ client[i] = "open"
        /\ frames' = frames + 1
        /\ ami' = [ami EXCEPT ![i] = r.self]
        /\ fault' = r.err
        /\ emitted' = [emitted EXCEPT ![i] = @ \o r.events]
        /\ inflight' = IF r.self.listeners > 0
                       THEN inflight \o [k \in 1..Len(r.events) |->
                                ReceivedTranscription(r.events[k], callSid)]
                       ELSE inflight
        /\ accepted' = IF message.type = "utf8" /\ code = "A"
                       THEN [accepted EXCEPT ![i] = Append(@, message.utf8Data[3][2])]
                       ELSE accepted
        /\ sessionStarted' =
               IF message.type = "utf8" /\ code = "s"
               THEN [sessionStarted EXCEPT ![i] = TRUE]
               ELSE IF message.type = "utf8" /\ code = "e"
                    THEN [sessionStarted EXCEPT ![i] = FALSE]
                    ELSE sessionStarted
        /\ UNCHANGED << messageCount, amiVoiceConnection, callSid, twilio, received,
                        client, wire, connects, dialed, callUpdates, starts >>

\* connection.on("close") of a provider connection
ProviderClose(i) ==
    /\ fault = "none"
    /\ client[i] = "open"
    /\ client' = [client EXCEPT ![i] = "closed"]
    /\ ami' = [ami EXCEPT ![i].isStarted = FALSE]
    /\ sessionStarted' = [sessionStarted EXCEPT ![i] = FALSE]
    /\ UNCHANGED << messageCount, amiVoiceConnection, callSid, twilio, received,
                    fault, wire, frames, emitted, accepted, connects, dialed,
                    inflight, callUpdates, starts >>

\* completions that resolve in the order they were requested only
CompletionResolved_serial(k, reply) ==
    /\ fault = "none"
    /\ k \in 1..Len(inflight)
    /\ k = 1
    /\ inflight' = SubSeq(inflight, 1, k - 1) \o SubSeq(inflight, k + 1, Len(inflight))
    /\ callUpdates' = Append(callUpdates,
           [callSid |-> inflight[k].callSid, say |-> reply, pause |-> PauseLength])
    /\ UNCHANGED << messageCount, amiVoiceConnection, callSid, twilio, received,
                    fault, ami, client, wire, frames, emitted, accepted,
                    sessionStarted, connects, dialed, starts >>

\* receivedTranscription after its await: the completion arrived, the call is updated
CompletionResolved(k, reply) ==
    /\ fault = "none"
    /\ k \in 1..Len(inflight)
    /\ inflight' = SubSeq(inflight, 1, k - 1) \o SubSeq(inflight, k + 1, Len(inflight))
    /\ callUpdates' = Append(callUpdates,
           [callSid |-> inflight[k].callSid, say |-> reply, pause |-> PauseLength])
    /\ UNCHANGED << messageCount, amiVoiceConnection, callSid, twilio, received,
                    fault, ami, client, wire, frames, emitted, accepted,
                    sessionStarted, connects, dialed, starts >>

Next ==
    \/ \E message \in Messages :
          /\ received < MaxInbound
          /\ received + frames < MaxEvents
          /\ processMessage(message)
          /\ UNCHANGED << log, peer, closes >>
    \/ TwilioClose /\ UNCHANGED << log, peer, closes >>
    \/ \E i \in Sessions : ClientConnect(i) /\ UNCHANGED << log, peer, closes >>
    \/ \E i \in Sessions : ClientConnectFailed(i) /\ UNCHANGED << log, peer, closes >>
    \/ \E i \in Sessions, message \in ProviderFrames :
          /\ frames < MaxFrames
          /\ received + frames < MaxEvents
          /\ ProviderMessage(i, message)
          /\ UNCHANGED << log, peer, closes >>
    \/ \E i \in Sessions : ProviderClose(i) /\ UNCHANGED << log, peer, closes >>
    \/ \E k \in 1..Len(inflight), reply \in Replies :
          CompletionResolved(k, reply) /\ UNCHANGED << log, peer, closes >>

Spec == Init /\ [][Next]_vars

\* the frames written by this step
Written == IF amiVoiceConnection = 0 THEN 0
           ELSE Len(wire'[amiVoiceConnection]) - Len(wire[amiVoiceConnection])

\* The same handlers, with the calls of VoiceStream.close() recorded: one by
\* each "closed" event and one by the close of the inbound transport.
NextTeardown ==
    \/ \E message \in Messages :
          /\ received < MaxInbound
          /\ received + frames < MaxEvents
          /\ processMessage(message)
          /\ closes' = IF message.type = "utf8" /\ message.event = "closed"
                       THEN Append(closes, Written) ELSE closes
          /\ UNCHANGED << log, peer >>
    \/ TwilioClose /\ closes' = Append(closes, Written) /\ UNCHANGED << log, peer >>
    \/ \E i \in Sessions : ClientConnect(i) /\ UNCHANGED << log, peer, closes >>
    \/ \E i \in Sessions : ClientConnectFailed(i) /\ UNCHANGED << log, peer, closes >>
    \/ \E i \in Sessions, message \in ProviderFrames :
          /\ frames < MaxFrames
          /\ received + frames < MaxEvents
          /\ ProviderMessage(i, message)
          /\ UNCHANGED << log, peer, closes >>
    \/ \E i \in Sessions : ProviderClose(i) /\ UNCHANGED << log, peer, closes >>
    \/ \E k \in 1..Len(inflight), reply \in Replies :
          CompletionResolved(k, reply) /\ UNCHANGED << log, peer, closes >>

SpecTeardown == Init /\ [][NextTeardown]_vars

\* ------------------------------------------------------------ two calls
\* handlers of the second VoiceStream and of its AmiVoice objects; they touch
\* nothing of the first one, but an exception they throw ends the one process
PeerSessions == 1..Len(peer.sessions)

mainVars == << messageCount, amiVoiceConnection, callSid, twilio, received, ami,
               client, wire, frames, emitted, accepted, sessionStarted, connects,
               dialed, inflight, callUpdates, starts, closes >>

\* websocketServer.on("connect"): the second connection is accepted
PeerAccept ==
    /\ fault = "none"
    /\ peer.twilio = "none"
    /\ peer' = NewVoiceStream
    /\ UNCHANGED << fault, mainVars >>

\* events of the two calls so far: the frames received and the second accept
Events ==
    received + frames + peer.received + peer.frames
        + (IF peer.twilio = "none" THEN 0 ELSE 1)

PeerProcessMessage(message) ==
    LET vs == VS_processMessage(peer, message)
    IN  /\ fault = "none"
        /\ peer.twilio = "open"
        /\ peer' = vs
        /\ fault' = vs.thrown
        /\ UNCHANGED mainVars

PeerTwilioClose ==
    LET vs == VS_close([peer EXCEPT !.twilio = "closed"])
    IN  /\ fault = "none"
        /\ peer.twilio = "open"
        /\ peer' = vs
        /\ fault' = vs.thrown
        /\ UNCHANGED mainVars

PeerClientConnect(i) ==
    LET ready == [peer.sessions[i].obj EXCEPT !.connection = TRUE, !.isReady = TRUE]
        vs    == VS_commit([peer EXCEPT !.sessions[i].client = "open"], i, start(ready))
    IN  /\ fault = "none"
        /\ peer.sessions[i].client = "connecting"
        /\ peer' = vs
        /\ fault' = vs.thrown
        /\ UNCHANGED mainVars

PeerClientConnectFailed(i) ==
    /\ fault = "none"
    /\ peer.sessions[i].client = "connecting"
    /\ peer' = [peer EXCEPT !.sessions[i].client = "failed",
                            !.sessions[i].obj.isReady = FALSE]
    /\ UNCHANGED << fault, mainVars >>

PeerProviderMessage(i, message) ==
    LET r == OnMessage(peer.sessions[i].obj, message)
    IN  /\ fault = "none"
        /\ peer.sessions[i].client = "open"
        /\ peer' = [peer EXCEPT
               !.frames = @ + 1,
               !.sessions[i].obj = r.self,
               !.thrown = r.err,
               !.inflight = IF r.self.listeners > 0
                            THEN @ \o [k \in 1..Len(r.events) |->
                                     ReceivedTranscription(r.events[k], peer.callSid)]
                            ELSE @]
        /\ fault' = r.err
        /\ UNCHANGED mainVars

PeerProviderClose(i) ==
    /\ fault = "none"
    /\ peer.sessions[i].client = "open"
    /\ peer' = [peer EXCEPT !.sessions[i].client = "closed",
                            !.sessions[i].obj.isStarted = FALSE]
    /\ UNCHANGED << fault, mainVars >>

PeerCompletionResolved(k, reply) ==
    /\ fault = "none"
    /\ k \in 1..Len(peer.inflight)
    /\ peer' = [peer EXCEPT
           !.inflight = SubSeq(@, 1, k - 1) \o SubSeq(@, k + 1, Len(@)),
           !.callUpdates = Append(@, [callSid |-> peer.inflight[k].callSid,
                                      say |-> reply, pause |-> PauseLength])]
    /\ UNCHANGED << fault, mainVars >>

\* Both connections in one process.  The bounds are budgets over the two calls.
NextTwoCalls ==
    \/ \E message \in Messages :
          /\ received + peer.received < MaxInbound
          /\ Events < MaxEvents
          /\ message.event = "start" => Len(ami) + Len(peer.sessions) < MaxSessions
          /\ processMessage(message)
          /\ UNCHANGED << log, peer, closes >>
    \/ TwilioClose /\ UNCHANGED << log, peer, closes >>
    \/ \E i \in Sessions : ClientConnect(i) /\ UNCHANGED << log, peer, closes >>
    \/ \E i \in Sessions : ClientConnectFailed(i) /\ UNCHANGED << log, peer, closes >>
    \/ \E i \in Sessions, message \in ProviderFrames :
          /\ frames + peer.frames < MaxFrames
          /\ Events < MaxEvents
          /\ ProviderMessage(i, message)
          /\ UNCHANGED << log, peer, closes >>
    \/ \E i \in Sessions : ProviderClose(i) /\ UNCHANGED << log, peer, closes >>
    \/ \E k \in 1..Len(inflight), reply \in Replies :
          CompletionResolved(k, reply) /\ UNCHANGED << log, peer, closes >>
    \/ Events < MaxEvents /\ PeerAccept /\ UNCHANGED log
    \/ \E message \in PeerMessages :
          /\ received + peer.received < MaxInbound
          /\ Events < MaxEvents
          /\ message.event = "start" => Len(ami) + Len(peer.sessions) < MaxSessions
          /\ PeerProcessMessage(message)
          /\ UNCHANGED log
    \/ PeerTwilioClose /\ UNCHANGED log
    \/ \E i \in PeerSessions : PeerClientConnect(i) /\ UNCHANGED log
    \/ \E i \in PeerSessions : PeerClientConnectFailed(i) /\ UNCHANGED log
    \/ \E i \in PeerSessions, message \in PeerFrames :
          /\ frames + peer.frames < MaxFrames
          /\ Events < MaxEvents
          /\ PeerProviderMessage(i, message)
          /\ UNCHANGED log
    \/ \E i \in PeerSessions : PeerProviderClose(i) /\ UNCHANGED log
    \/ \E k \in 1..Len(peer.inflight), reply \in Replies :
          PeerCompletionResolved(k, reply) /\ UNCHANGED log

SpecTwoCalls == Init /\ [][NextTwoCalls]_vars

\* ------------------------------------------------- end-to-end scenario
\* The inbound connection delivers exactly this sequence of events; the
\* provider is free.  log records every event in the order it was handled.
Script == << "connected", "start", "media", "closed" >>

Logged(ev, payload) == [ev |-> ev, payload |-> payload]

NextScenario ==
    \/ \E message \in Messages :
          /\ received < Len(Script)
          /\ message.type = "utf8"
          /\ message.event = Script[received + 1]
          /\ processMessage(message)
          /\ log' = Append(log, Logged(message.event, message.payload))
          /\ UNCHANGED << peer, closes >>
    \/ \E i \in Sessions :
          /\ ClientConnect(i)
          /\ log' = Append(log, Logged("connect", <<>>))
          /\ UNCHANGED << peer, closes >>
    \/ \E i \in Sessions :
          /\ ClientConnectFailed(i)
          /\ log' = Append(log, Logged("connectFailed", <<>>))
          /\ UNCHANGED << peer, closes >>
    \/ \E i \in Sessions, message \in ProviderFrames :
          /\ frames < MaxFrames
          /\ ProviderMessage(i, message)
          /\ log' = Append(log, Logged(IF message.type = "utf8"
                                       THEN CharAt0(message.utf8Data)
                                       ELSE "binary", <<>>))
          /\ UNCHANGED << peer, closes >>
    \/ \E i \in Sessions :
          /\ ProviderClose(i)
          /\ log' = Append(log, Logged("close", <<>>))
          /\ UNCHANGED << peer, closes >>

SpecScenario == Init /\ [][NextScenario]_vars

\* ------------------------------------------------------------------ claims
StartFrame == Utf8Frame(StartCommand)
EndFrame   == Utf8Frame(EndCommand)

\* the step is processMessage of a text frame with this event
Handles(event) ==
    \E message \in Messages :
        message.type = "utf8" /\ message.event = event /\ processMessage(message)

\* the step calls close() of the Call Session
Teardown == TwilioClose \/ Handles("closed")

\* C1: send() writes to the provider connection only while the session is
\* Started ('s' received and no 'e', transport close or close() since); a send()
\* in any other state writes nothing.
C1_SendOnlyWhenStarted ==
    [][ (amiVoiceConnection # 0 /\ Handles("media"))
          => (sessionStarted[amiVoiceConnection]
                \/ wire'[amiVoiceConnection] = wire[amiVoiceConnection]) ]_vars

\* the bytes the two payloads stand for, from the base64 alphabet itself:
\* "/w==" is FF, "fv//fv8=" is 7E FF FF 7E FF
Audio(payload) ==
    IF payload = <<63, 48, Pad, Pad>> THEN <<255>> ELSE <<126, 255, 255, 126, 255>>

\* C2: send(payload) on a Started session performs exactly one binary write:
\* the byte 0x70, then the decoded bytes of the payload, in order.
C2_SendWritesOneAudioFrame ==
    [][ \A message \in Messages :
          ( /\ amiVoiceConnection # 0
            /\ message.type = "utf8" /\ message.event = "media"
            /\ ( sessionStarted[amiVoiceConnection]
                   \/ ami[amiVoiceConnection].isStarted )
            /\ processMessage(message) )
          => LET i == amiVoiceConnection
                 n == Len(wire[i])
                 decoded == Audio(message.payload)
             IN  /\ Len(wire'[i]) = n + 1
                 /\ SubSeq(wire'[i], 1, n) = wire[i]
                 /\ wire'[i][n + 1].type = "binary"
                 /\ Len(wire'[i][n + 1].bytes) = Len(decoded) + 1
                 /\ wire'[i][n + 1].bytes[1] = 112
                 /\ \A k \in 1..Len(decoded) : wire'[i][n + 1].bytes[k + 1] = decoded[k]
                 /\ \A j \in Sessions \ {i} : wire'[j] = wire[j]
                 /\ fault' = "none" ]_vars

C2_Witness ==
    \E i \in Sessions : \E k \in 1..Len(wire[i]) :
        /\ wire[i][k].type = "binary"
        /\ Len(wire[i][k].bytes) = 6
        /\ sessionStarted[i]

\* C3: the start command is written exactly once per successful low-level
\* connect, and before every audio frame written on that connection.
C3_StartCommandOncePerConnect ==
    \A i \in Sessions :
        /\ Cardinality({ k \in 1..Len(wire[i]) : wire[i][k] = StartFrame }) = connects[i]
        /\ \A k \in 1..Len(wire[i]) :
              wire[i][k].type = "binary"
                  => \E j \in 1..(k - 1) : wire[i][j] = StartFrame

C3_Witness ==
    \E i \in Sessions :
        /\ connects[i] = 1
        /\ \E k \in 1..Len(wire[i]) : wire[i][k].type = "binary"

\* C4: while no start event has been received, whatever media events were,
\* no provider connection has been opened and no audio frame written.
C4_NoAudioBeforeStart ==
    starts = 0 => /\ ami = <<>>
                  /\ client = <<>>
                  /\ dialed = <<>>
                  /\ wire = <<>>

\* a media event was processed before any start event
C4_Witness == starts = 0 /\ received > 0 /\ fault = "TypeError: send of null"

\* C5: a media event with no Speech Session is dropped without an error, and
\* the Call Session goes on processing later events.
C5_MediaBeforeStartIsNoOp ==
    [][ (amiVoiceConnection = 0 /\ Handles("media"))
          => /\ fault' = "none"
             /\ UNCHANGED << amiVoiceConnection, callSid, ami, client, wire >> ]_vars

\* C6: teardown of a Call Session that never received a start event raises no
\* error and writes nothing to any provider connection.
C6_TeardownWithoutStartIsNoOp ==
    [][ (starts = 0 /\ Teardown) => (fault' = "none" /\ wire' = wire) ]_vars

\* C7: at most one Speech Session of the Call Session holds a pending or open
\* provider connection, and at most one has a transcription subscription.
C7_AtMostOneSpeechSession ==
    /\ Cardinality({ i \in Sessions : client[i] \in {"connecting", "open"} }) <= 1
    /\ Cardinality({ i \in Sessions : ami[i].listeners > 0 }) <= 1

\* C8: close() on a Started session writes exactly one "e" and leaves the
\* started flag false; close() on a session that is not Started writes nothing.
C8_CloseSendsEndOnlyWhenStarted ==
    [][ (amiVoiceConnection # 0 /\ Teardown)
          => LET i == amiVoiceConnection
             IN  IF sessionStarted[i]
                 THEN /\ wire'[i] = Append(wire[i], EndFrame)
                      /\ ~ami'[i].isStarted
                 ELSE wire'[i] = wire[i] ]_vars

\* the provider-side trace of a session: its connects, then what was written
Kind(frame) ==
    IF frame = StartFrame THEN "start"
    ELSE IF frame = EndFrame THEN "close"
    ELSE IF frame.type = "binary" THEN "audio" ELSE "other"

ProviderTrace(i) ==
    [k \in 1..connects[i] |-> "connect"] \o [k \in 1..Len(wire[i]) |-> Kind(wire[i][k])]

EventNames(l) == [k \in 1..Len(l) |-> l[k].ev]

IsProviderEvent(e) == e.ev \notin {"connected", "start", "media", "closed"}

\* C9 as claimed: after connected, start, media, closed, in every interleaving
\* with the provider's connect completion and 's' frame, the provider-side trace
\* is connect, start command, audio frame, close command and messageCount is 4.
C9_TraceInEveryInterleaving ==
    ( /\ received = Len(Script)
      /\ EventNames(SelectSeq(log, IsProviderEvent)) = << "connect", "s" >> )
      => /\ Len(ami) = 1
         /\ ProviderTrace(1) = << "connect", "start", "audio", "close" >>
         /\ messageCount = 4

\* C9 as amended: the trace is the full one when the connect completion and the
\* 's' frame both come between start and media and the provider sends nothing
\* else; messageCount ends at 4 in every interleaving.
C9_TraceWhenStartedBeforeMedia ==
    received = Len(Script)
      => /\ messageCount = 4
         /\ Len(ami) = 1
         /\ dialed[1] = 1
         /\ EventNames(log) = << "connected", "start", "connect", "s", "media", "closed" >>
              => /\ connects[1] = 1
                 /\ wire[1] = << StartFrame,
                                 BinaryFrame(<<112>> \o Audio(log[5].payload)),
                                 EndFrame >>

C9_Witness ==
    /\ EventNames(log) = << "connected", "start", "connect", "s", "media", "closed" >>
    /\ ProviderTrace(1) = << "connect", "start", "audio", "close" >>

\* C10: every 'A' frame causes exactly one transcription event carrying the
\* text of its result document; no other frame causes one.
C10_OneTranscriptionPerAFrame ==
    \A i \in Sessions :
        /\ Len(emitted[i]) = Len(accepted[i])
        /\ \A k \in 1..Len(emitted[i]) : emitted[i][k] = [body |-> [text |-> accepted[i][k]]]

\* one 'A' frame and one frame of another kind have been received
C10_Witness ==
    /\ frames = 2
    /\ \E i \in Sessions :
          /\ Len(accepted[i]) = 1
          /\ Len(emitted[i]) = 1
          /\ \A j \in Sessions \ {i} : accepted[j] = <<>>

RECURSIVE Total(_)
\* the number of elements of a sequence of sequences
Total(ss) == IF ss = <<>> THEN 0 ELSE Len(Head(ss)) + Total(Tail(ss))

Disconnected(i) ==
    \/ client[i] = "failed"
    \/ client[i] = "open" /\ ~ami[i].isReady

\* C12: a send() or close() on a Disconnected session dials the provider once
\* more, and nothing else dials an existing session again.
C12_ReconnectOnNextCall ==
    [][ \A i \in Sessions :
          LET called == i = amiVoiceConnection /\ (Handles("media") \/ Teardown)
          IN  IF Disconnected(i) /\ called
              THEN dialed'[i] = dialed[i] + 1
              ELSE dialed'[i] = dialed[i] ]_vars

\* C13: every text frame received on the inbound connection adds one to
\* messageCount, whatever its event and whether or not there is a Speech
\* Session; a binary frame leaves messageCount as it is.
C13_MessageCountCountsTextFrames ==
    [][ \A message \in Messages :
          processMessage(message)
            => messageCount' = messageCount + (IF message.type = "utf8" THEN 1 ELSE 0) ]_vars

\* C14: after a failure of the other Call Session, this Call Session, while
\* its inbound connection is open, still processes every event it receives.
C14_FailuresAreContained ==
    (peer.thrown # "none" /\ twilio = "open")
      => \A message \in Messages :
            message.event # "start" => ENABLED processMessage(message)

\* C15: once close() of the Call Session has been called, none of its Speech
\* Sessions is Started and no start command or audio frame is written.
C15_ClosedStaysClosed ==
    [][ closes # <<>>
          => \A i \in Sessions :
                /\ ~ami'[i].isStarted
                /\ \A k \in (Len(wire[i]) + 1)..Len(wire'[i]) :
                      wire'[i][k] # StartFrame /\ wire'[i][k].type # "binary" ]_vars

\* C16: frames written stay where they are; an audio frame is only ever written
\* by the handler of a media event, to the current Speech Session, one per
\* event and carrying that event's payload.
C16_AudioInArrivalOrder ==
    [][ \A i \in Sessions :
          LET n == Len(wire[i])
          IN  /\ Len(wire'[i]) >= n
              /\ SubSeq(wire'[i], 1, n) = wire[i]
              /\ \A k \in (n + 1)..Len(wire'[i]) :
                    wire'[i][k].type = "binary"
                      => /\ Len(wire'[i]) = n + 1
                         /\ i = amiVoiceConnection
                         /\ \E message \in Messages :
                               /\ message.type = "utf8" /\ message.event = "media"
                               /\ processMessage(message)
                               /\ wire'[i][k].bytes = <<112>> \o Audio(message.payload) ]_vars

\* two media events with different payloads were forwarded
C16_Witness ==
    \E i \in Sessions : \E k, l \in 1..Len(wire[i]) :
        /\ k < l
        /\ wire[i][k].type = "binary"
        /\ wire[i][l].type = "binary"
        /\ wire[i][k].bytes # wire[i][l].bytes

\* the 'A' frame carrying text t
AFrame(t) == [type |-> "utf8", utf8Data |-> <<"A", " ", Doc(t)>>]

\* C17: while a completion is in flight the next transcription is accepted, and
\* any of the completions in flight may be the next to return.
C17_PipelinesNotSerialized ==
    (fault = "none" /\ inflight # <<>>)
      => /\ \A i \in Sessions :
               client[i] = "open" => \E t \in Texts : ENABLED ProviderMessage(i, AFrame(t))
         /\ \A k \in 1..Len(inflight), reply \in Replies :
               ENABLED CompletionResolved(k, reply)

\* the call update of the later of two transcriptions was issued while the
\* completion of the earlier one is still in flight
C17_Witness ==
    \E i \in Sessions :
        /\ emitted[i] = << [body |-> [text |-> "hello"]], [body |-> [text |-> "yoyaku"]] >>
        /\ Len(inflight) = 1
        /\ inflight[1].text = "hello"
        /\ Len(callUpdates) = 1

\* C18: a binary frame, a "connected" event and an unrecognized event raise no
\* error and change nothing but messageCount, which the text frames increment.
C18_IgnoredFramesChangeNothing ==
    [][ \A message \in Messages :
          ( /\ message.type = "binary" \/ message.event \in {"connected", "mark"}
            /\ processMessage(message) )
          => /\ fault' = "none"
             /\ messageCount' = messageCount + (IF message.type = "utf8" THEN 1 ELSE 0)
             /\ UNCHANGED << amiVoiceConnection, callSid, twilio, ami, client, wire,
                             connects, dialed, emitted, inflight, callUpdates >> ]_vars

\* a binary frame and an ignored text frame were received, and nothing else
C18_Witness ==
    /\ received = 2
    /\ messageCount = 1
    /\ starts = 0
    /\ fault = "none"

Ends(i) == Cardinality({ k \in 1..Len(wire[i]) : wire[i][k] = EndFrame })

C20_FlagsConsistent ==
    /\ \A i \in Sessions : ami[i].isStarted => (ami[i].isReady /\ ami[i].connection)
    /\ fault # "TypeError: send of undefined"

====
